---- MODULE Spec2Model ----
(***************************************************************************)
(* HSMS message framing and header encoding (src/src/hsms.rs) together     *)
(* with the bincode helpers of src/src/utils/serialize.rs.                 *)
(*                                                                         *)
(* The codec is a set of pure functions.  Each is an operator below,       *)
(* computed the way the code computes it, and the state machine is a       *)
(* caller that applies them to inputs drawn from bounded sets:             *)
(*   idle -> HeaderNew | HeaderLiteral -> GetSessionType -> SerializeHeader *)
(*   idle -> MessageNew | MessageLiteral -> ToBytes -> FromBytes           *)
(*   idle -> Receive -> FromBytes; a decoded message -> ToBytesAgain       *)
(* TLC integers are 32-bit signed, so u32 values are sampled below 2^31.   *)
(***************************************************************************)
EXTENDS Integers, Sequences, FiniteSets, TLC

VARIABLES pc, via, call, given, hdr, kind_res, msg, wire, parsed, resent

vars == <<pc, via, call, given, hdr, kind_res, msg, wire, parsed, resent>>

---------------------------------------------------------------------------
(* Bounds and input samples *)

\* longest message body the caller passes or receives
MaxBody == 2

\* bytes a body or buffer is made of
BodyBytes == {0, 1, 255}

\* u16 arguments: low bit only, top bit only, all bits
U16Samples == {1, 32768, 65535}

\* u8 arguments: low bit only, top bit only, all bits
U8Samples == {1, 128, 255}

\* u32 arguments (system bytes, message length)
U32Samples == {0, 286331153, 16909060}

---------------------------------------------------------------------------
(* Bit arithmetic of the unsigned integer types *)

RECURSIVE BitAnd(_, _)
BitAnd(a, b) ==
    IF a = 0 \/ b = 0 THEN 0
    ELSE (IF a % 2 = 1 /\ b % 2 = 1 THEN 1 ELSE 0) + 2 * BitAnd(a \div 2, b \div 2)

RECURSIVE BitOr(_, _)
BitOr(a, b) ==
    IF a = 0 THEN b
    ELSE IF b = 0 THEN a
    ELSE (IF a % 2 = 1 \/ b % 2 = 1 THEN 1 ELSE 0) + 2 * BitOr(a \div 2, b \div 2)

---------------------------------------------------------------------------
(* enum SessionType, #[repr(u8)] with IntoPrimitive and TryFromPrimitive *)

SessionType ==
    {"SECS2", "SelectReq", "SelectRsp", "DeselectReq", "DeselectRsp",
     "LinktestReq", "LinktestRsp", "RejectReq", "SeparateReq"}

\* a mutant of SessionType_into: SeparateReq numbered 8 instead of 9
SessionType_into_Separate8(session_type) ==
    CASE session_type = "SECS2" -> 0
      [] session_type = "SelectReq" -> 1
      [] session_type = "SelectRsp" -> 2
      [] session_type = "DeselectReq" -> 3
      [] session_type = "DeselectRsp" -> 4
      [] session_type = "LinktestReq" -> 5
      [] session_type = "LinktestRsp" -> 6
      [] session_type = "RejectReq" -> 7
      [] session_type = "SeparateReq" -> 8

\* session_type.into(): the discriminant of the enum member
SessionType_into(session_type) ==
    CASE session_type = "SECS2" -> 0
      [] session_type = "SelectReq" -> 1
      [] session_type = "SelectRsp" -> 2
      [] session_type = "DeselectReq" -> 3
      [] session_type = "DeselectRsp" -> 4
      [] session_type = "LinktestReq" -> 5
      [] session_type = "LinktestRsp" -> 6
      [] session_type = "RejectReq" -> 7
      [] session_type = "SeparateReq" -> 9

\* Result<SessionType, TryFromPrimitiveError<SessionType>>
KindOk(session_type) == [tag |-> "Ok", kind |-> session_type, number |-> 0]
KindErr(number) == [tag |-> "Err", kind |-> "", number |-> number]
NoKind == [tag |-> "", kind |-> "", number |-> 0]

\* a mutant of SessionType_try_from: the unused value 8 resolves to SeparateReq
SessionType_try_from_Accept8(number) ==
    CASE number = 0 -> KindOk("SECS2")
      [] number = 1 -> KindOk("SelectReq")
      [] number = 2 -> KindOk("SelectRsp")
      [] number = 3 -> KindOk("DeselectReq")
      [] number = 4 -> KindOk("DeselectRsp")
      [] number = 5 -> KindOk("LinktestReq")
      [] number = 6 -> KindOk("LinktestRsp")
      [] number = 7 -> KindOk("RejectReq")
      [] number = 8 -> KindOk("SeparateReq")
      [] number = 9 -> KindOk("SeparateReq")
      [] OTHER -> KindErr(number)

\* SessionType::try_from(u8): the member with that discriminant, or the
\* error carrying the number
SessionType_try_from(number) ==
    CASE number = 0 -> KindOk("SECS2")
      [] number = 1 -> KindOk("SelectReq")
      [] number = 2 -> KindOk("SelectRsp")
      [] number = 3 -> KindOk("DeselectReq")
      [] number = 4 -> KindOk("DeselectRsp")
      [] number = 5 -> KindOk("LinktestReq")
      [] number = 6 -> KindOk("LinktestRsp")
      [] number = 7 -> KindOk("RejectReq")
      [] number = 9 -> KindOk("SeparateReq")
      [] OTHER -> KindErr(number)

---------------------------------------------------------------------------
(* SessionID, HeaderByte2, HSMSHeader *)

\* a mutant of SessionID_from_direction_equip_id: equip_id is not masked
SessionID_from_direction_equip_id_NoMask(direction, equip_id) ==
    BitOr(BitAnd(direction, 32768), equip_id)

\* (direction&0x8000) |(equip_id&0x7FFF)
SessionID_from_direction_equip_id(direction, equip_id) ==
    BitOr(BitAnd(direction, 32768), BitAnd(equip_id, 32767))

\* (w_bit&0x80)|(stream&0x7F)
HeaderByte2_from_w_bit_stream(w_bit, stream) ==
    BitOr(BitAnd(w_bit, 128), BitAnd(stream, 127))

\* struct HSMSHeader; SessionID and HeaderByte2 are one-field wrappers and are
\* kept as the number they wrap
HSMSHeader(session_id, header_byte2, header_byte3, p_type, s_type, system_bytes) ==
    [session_id |-> session_id, header_byte2 |-> header_byte2,
     header_byte3 |-> header_byte3, p_type |-> p_type, s_type |-> s_type,
     system_bytes |-> system_bytes]

\* a mutant of HSMSHeader_new: the LinktestRsp arm is a copy of the SelectRsp arm
HSMSHeader_new_LinktestRspCaller(session_type, session_id, direction, equip_id, header_byte2, w_bit, stream, header_byte3, system_bytes) ==
    CASE session_type = "SECS2" ->
            HSMSHeader(SessionID_from_direction_equip_id(direction, equip_id),
                   HeaderByte2_from_w_bit_stream(w_bit, stream),
                   header_byte3, 0, SessionType_into(session_type), system_bytes)
      [] session_type = "SelectReq" ->
            HSMSHeader(65535, 0, 0, 0, SessionType_into(session_type), system_bytes)
      [] session_type = "SelectRsp" ->
            HSMSHeader(session_id, 0, header_byte3, 0, SessionType_into(session_type), system_bytes)
      [] session_type = "DeselectReq" ->
            HSMSHeader(65535, 0, 0, 0, SessionType_into(session_type), system_bytes)
      [] session_type = "DeselectRsp" ->
            HSMSHeader(session_id, 0, header_byte3, 0, SessionType_into(session_type), system_bytes)
      [] session_type = "LinktestReq" ->
            HSMSHeader(65535, 0, 0, 0, SessionType_into(session_type), system_bytes)
      [] session_type = "LinktestRsp" ->
            HSMSHeader(session_id, 0, header_byte3, 0, SessionType_into(session_type), system_bytes)
      [] session_type = "RejectReq" ->
            HSMSHeader(session_id, header_byte2, header_byte3, 0, SessionType_into(session_type), system_bytes)
      [] session_type = "SeparateReq" ->
            HSMSHeader(65535, 0, 0, 0, SessionType_into(session_type), system_bytes)

\* a mutant of HSMSHeader_new: the SelectRsp arm passes the caller's header_byte2
HSMSHeader_new_SelectRspByte2(session_type, session_id, direction, equip_id, header_byte2, w_bit, stream, header_byte3, system_bytes) ==
    CASE session_type = "SECS2" ->
            HSMSHeader(SessionID_from_direction_equip_id(direction, equip_id),
                   HeaderByte2_from_w_bit_stream(w_bit, stream),
                   header_byte3, 0, SessionType_into(session_type), system_bytes)
      [] session_type = "SelectReq" ->
            HSMSHeader(65535, 0, 0, 0, SessionType_into(session_type), system_bytes)
      [] session_type = "SelectRsp" ->
            HSMSHeader(session_id, header_byte2, header_byte3, 0, SessionType_into(session_type), system_bytes)
      [] session_type = "DeselectReq" ->
            HSMSHeader(65535, 0, 0, 0, SessionType_into(session_type), system_bytes)
      [] session_type = "DeselectRsp" ->
            HSMSHeader(session_id, 0, header_byte3, 0, SessionType_into(session_type), system_bytes)
      [] session_type = "LinktestReq" ->
            HSMSHeader(65535, 0, 0, 0, SessionType_into(session_type), system_bytes)
      [] session_type = "LinktestRsp" ->
            HSMSHeader(65535, 0, 0, 0, SessionType_into(session_type), system_bytes)
      [] session_type = "RejectReq" ->
            HSMSHeader(session_id, header_byte2, header_byte3, 0, SessionType_into(session_type), system_bytes)
      [] session_type = "SeparateReq" ->
            HSMSHeader(65535, 0, 0, 0, SessionType_into(session_type), system_bytes)

\* HSMSHeader::new: the fields each kind of message gets
HSMSHeader_new(session_type, session_id, direction, equip_id, header_byte2, w_bit, stream, header_byte3, system_bytes) ==
    CASE session_type = "SECS2" ->
            HSMSHeader(SessionID_from_direction_equip_id(direction, equip_id),
                   HeaderByte2_from_w_bit_stream(w_bit, stream),
                   header_byte3, 0, SessionType_into(session_type), system_bytes)
      [] session_type = "SelectReq" ->
            HSMSHeader(65535, 0, 0, 0, SessionType_into(session_type), system_bytes)
      [] session_type = "SelectRsp" ->
            HSMSHeader(session_id, 0, header_byte3, 0, SessionType_into(session_type), system_bytes)
      [] session_type = "DeselectReq" ->
            HSMSHeader(65535, 0, 0, 0, SessionType_into(session_type), system_bytes)
      [] session_type = "DeselectRsp" ->
            HSMSHeader(session_id, 0, header_byte3, 0, SessionType_into(session_type), system_bytes)
      [] session_type = "LinktestReq" ->
            HSMSHeader(65535, 0, 0, 0, SessionType_into(session_type), system_bytes)
      [] session_type = "LinktestRsp" ->
            HSMSHeader(65535, 0, 0, 0, SessionType_into(session_type), system_bytes)
      [] session_type = "RejectReq" ->
            HSMSHeader(session_id, header_byte2, header_byte3, 0, SessionType_into(session_type), system_bytes)
      [] session_type = "SeparateReq" ->
            HSMSHeader(65535, 0, 0, 0, SessionType_into(session_type), system_bytes)

\* HSMSHeader::get_session_type: Ok(SessionType::try_from(self.s_type)?)
HSMSHeader_get_session_type(self) ==
    LET r == SessionType_try_from(self.s_type)
    IN IF r.tag = "Err" THEN r ELSE KindOk(r.kind)

\* HSMSHeader::len
HSMSHeader_len(self) == 10

---------------------------------------------------------------------------
(* bincode (fixed-width integers, little-endian) and utils/serialize.rs *)

\* a mutant of Serialize_u32: most significant byte first
Serialize_u32_BigEndian(n) ==
    <<(n \div 16777216) % 256, (n \div 65536) % 256, (n \div 256) % 256, n % 256>>

\* bincode::serialize of a u16: low byte first
Serialize_u16(n) == <<n % 256, (n \div 256) % 256>>

\* bincode::serialize of a u32: low byte first
Serialize_u32(n) ==
    <<n % 256, (n \div 256) % 256, (n \div 65536) % 256, (n \div 16777216) % 256>>

\* serialize::serialize of an HSMSHeader: the fields in declaration order
Serialize_HSMSHeader(h) ==
    Serialize_u16(h.session_id) \o <<h.header_byte2, h.header_byte3, h.p_type, h.s_type>>
        \o Serialize_u32(h.system_bytes)

\* Result of a deserialization: the value, or bincode's error on a short input
DeOk(value) == [ok |-> TRUE, value |-> value]
DeErr == [ok |-> FALSE, value |-> 0]

\* bincode::deserialize::<u32>: reads 4 bytes, ignores what follows
Deserialize_u32(bytes) ==
    IF Len(bytes) < 4 THEN DeErr
    ELSE DeOk(bytes[1] + 256 * bytes[2] + 65536 * bytes[3] + 16777216 * bytes[4])

\* serialize::deserialize_from_bytes::<HSMSHeader>: reads 10 bytes, ignores
\* what follows
Deserialize_HSMSHeader(bytes) ==
    IF Len(bytes) < 10 THEN DeErr
    ELSE DeOk(HSMSHeader(bytes[1] + 256 * bytes[2], bytes[3], bytes[4], bytes[5],
                         bytes[6],
                         bytes[7] + 256 * bytes[8] + 65536 * bytes[9]
                             + 16777216 * bytes[10]))

---------------------------------------------------------------------------
(* HSMSMessage *)

\* Option<Vec<u8>>
Some(vec) == [some |-> TRUE, vec |-> vec]
None == [some |-> FALSE, vec |-> <<>>]

\* struct HSMSMessage
HSMSMessage(message_length, hsms_header, message_text) ==
    [message_length |-> message_length, hsms_header |-> hsms_header,
     message_text |-> message_text]

NoHeader == HSMSHeader(0, 0, 0, 0, 0, 0)
NoMessage == HSMSMessage(0, NoHeader, None)

\* a mutant of HSMSMessage_new: the header's 10 bytes are not counted
HSMSMessage_new_NoHeaderLen(hsms_header, message_text) ==
    HSMSMessage(Len(message_text), hsms_header, Some(message_text))

\* HSMSMessage::new.  message_text.len() as u32 keeps the low 32 bits, which
\* is the length itself for every body the model builds.
HSMSMessage_new(hsms_header, message_text) ==
    HSMSMessage(HSMSHeader_len(hsms_header) + Len(message_text), hsms_header,
                Some(message_text))

\* &vec[from..to]: the bytes at from..to-1, or a panic when the range does not
\* lie in the vector
Slice(vec, from, to) ==
    IF from <= to /\ to <= Len(vec) THEN DeOk(SubSeq(vec, from + 1, to)) ELSE DeErr

\* Result<HSMSMessage,&'static str>, or the panic of an unwrap, an expect or a
\* slice out of range
FromOk(message) == [tag |-> "Ok", message |-> message, err |-> ""]
FromErr(err) == [tag |-> "Err", message |-> NoMessage, err |-> err]
FromPanic(err) == [tag |-> "Panic", message |-> NoMessage, err |-> err]
NoResult == [tag |-> "", message |-> NoMessage, err |-> ""]

\* a mutant of HSMSMessage_from_bytes: the size check is off by one
HSMSMessage_from_bytes_Less13(vec) ==
    IF Len(vec) < 13 THEN FromErr("Size less than 14")
    ELSE LET length_bytes == Slice(vec, 0, 4)
             message_length == IF length_bytes.ok THEN Deserialize_u32(length_bytes.value)
                               ELSE DeErr
             header_bytes == Slice(vec, 4, 14)
             hsms_header == IF header_bytes.ok THEN Deserialize_HSMSHeader(header_bytes.value)
                            ELSE DeErr
             message_text == IF Len(vec) > 14 THEN Some(SubSeq(vec, 15, Len(vec))) ELSE None
         IN IF ~length_bytes.ok THEN FromPanic("range end index out of range")
            ELSE IF ~message_length.ok THEN FromPanic("unwrap on an Err value")
            ELSE IF ~header_bytes.ok THEN FromPanic("range end index out of range")
            ELSE IF ~hsms_header.ok THEN FromPanic("Deserialize hsms header fail")
            ELSE FromOk(HSMSMessage(message_length.value, hsms_header.value, message_text))

\* a mutant of HSMSMessage_from_bytes: the text starts one byte early
HSMSMessage_from_bytes_TextFrom13(vec) ==
    IF Len(vec) < 14 THEN FromErr("Size less than 14")
    ELSE LET length_bytes == Slice(vec, 0, 4)
             message_length == IF length_bytes.ok THEN Deserialize_u32(length_bytes.value)
                               ELSE DeErr
             header_bytes == Slice(vec, 4, 14)
             hsms_header == IF header_bytes.ok THEN Deserialize_HSMSHeader(header_bytes.value)
                            ELSE DeErr
             message_text == IF Len(vec) > 14 THEN Some(SubSeq(vec, 14, Len(vec))) ELSE None
         IN IF ~length_bytes.ok THEN FromPanic("range end index out of range")
            ELSE IF ~message_length.ok THEN FromPanic("unwrap on an Err value")
            ELSE IF ~header_bytes.ok THEN FromPanic("range end index out of range")
            ELSE IF ~hsms_header.ok THEN FromPanic("Deserialize hsms header fail")
            ELSE FromOk(HSMSMessage(message_length.value, hsms_header.value, message_text))

\* a mutant of HSMSMessage_from_bytes: the length is computed from the bytes
\* received, not read from the first four
HSMSMessage_from_bytes_LengthFromBody(vec) ==
    IF Len(vec) < 14 THEN FromErr("Size less than 14")
    ELSE LET length_bytes == Slice(vec, 0, 4)
             message_length == IF length_bytes.ok THEN DeOk(Len(vec) - 4) ELSE DeErr
             header_bytes == Slice(vec, 4, 14)
             hsms_header == IF header_bytes.ok THEN Deserialize_HSMSHeader(header_bytes.value)
                            ELSE DeErr
             message_text == IF Len(vec) > 14 THEN Some(SubSeq(vec, 15, Len(vec))) ELSE None
         IN IF ~length_bytes.ok THEN FromPanic("range end index out of range")
            ELSE IF ~message_length.ok THEN FromPanic("unwrap on an Err value")
            ELSE IF ~header_bytes.ok THEN FromPanic("range end index out of range")
            ELSE IF ~hsms_header.ok THEN FromPanic("Deserialize hsms header fail")
            ELSE FromOk(HSMSMessage(message_length.value, hsms_header.value, message_text))

\* HSMSMessage::from_bytes
HSMSMessage_from_bytes(vec) ==
    IF Len(vec) < 14 THEN FromErr("Size less than 14")
    ELSE LET length_bytes == Slice(vec, 0, 4)
             message_length == IF length_bytes.ok THEN Deserialize_u32(length_bytes.value)
                               ELSE DeErr
             header_bytes == Slice(vec, 4, 14)
             hsms_header == IF header_bytes.ok THEN Deserialize_HSMSHeader(header_bytes.value)
                            ELSE DeErr
             message_text == IF Len(vec) > 14 THEN Some(SubSeq(vec, 15, Len(vec))) ELSE None
         IN IF ~length_bytes.ok THEN FromPanic("range end index out of range")
            ELSE IF ~message_length.ok THEN FromPanic("unwrap on an Err value")
            ELSE IF ~header_bytes.ok THEN FromPanic("range end index out of range")
            ELSE IF ~hsms_header.ok THEN FromPanic("Deserialize hsms header fail")
            ELSE FromOk(HSMSMessage(message_length.value, hsms_header.value, message_text))

\* HSMSMessage::to_bytes
HSMSMessage_to_bytes(self) ==
    Serialize_u32(self.message_length) \o Serialize_HSMSHeader(self.hsms_header)
        \o (IF self.message_text.some THEN self.message_text.vec ELSE <<>>)

---------------------------------------------------------------------------
(* The inputs of the caller *)

RECURSIVE SeqsUpTo(_, _)
\* the sequences over S of length 0..n
SeqsUpTo(S, n) ==
    IF n = 0 THEN {<<>>}
    ELSE LET shorter == SeqsUpTo(S, n - 1)
         IN shorter \cup {Append(s, x) : s \in {t \in shorter : Len(t) = n - 1}, x \in S}

Bodies == SeqsUpTo(BodyBytes, MaxBody)

\* headers written as struct literals, as the tests write them: any field
\* values, also an unused s_type or a non-zero p_type
HeaderSamples ==
    {HSMSHeader(session_id, header_byte2, header_byte3, p_type, s_type, system_bytes) :
        session_id \in U16Samples, header_byte2 \in {0, 129}, header_byte3 \in {0, 3},
        p_type \in {0, 1}, s_type \in {0, 1, 8}, system_bytes \in U32Samples}

\* what a transport may hand to from_bytes: a declared length (right, wrong,
\* zero or huge), ten header bytes and a body, cut anywhere
LengthPrefixes == {<<10, 0, 0, 0>>, <<12, 0, 0, 0>>, <<0, 0, 0, 0>>, <<255, 255, 255, 127>>}

RawHeaders ==
    {<<255, 255, 0, 0, 0, 1, 17, 17, 17, 17>>,
     <<1, 128, 129, 3, 0, 0, 4, 3, 2, 1>>,
     <<0, 0, 255, 255, 255, 8, 255, 255, 255, 127>>}

Buffers ==
    UNION {{SubSeq(l \o h \o b, 1, n) : n \in 0..(14 + Len(b))} :
              l \in LengthPrefixes, h \in RawHeaders, b \in Bodies}

\* the arguments of one call of HSMSHeader::new
Call(session_type, session_id, direction, equip_id, header_byte2, w_bit, stream, header_byte3, system_bytes) ==
    [session_type |-> session_type, session_id |-> session_id, direction |-> direction,
     equip_id |-> equip_id, header_byte2 |-> header_byte2, w_bit |-> w_bit,
     stream |-> stream, header_byte3 |-> header_byte3, system_bytes |-> system_bytes]

NoCall == Call("", 0, 0, 0, 0, 0, 0, 0, 0)

\* the arguments of one call of HSMSMessage::new
Given(hsms_header, message_text) ==
    [hsms_header |-> hsms_header, message_text |-> message_text]

NoGiven == Given(NoHeader, <<>>)

---------------------------------------------------------------------------
(* The caller *)

Init ==
    /\ pc = "idle"
    /\ via = ""
    /\ call = NoCall
    /\ given = NoGiven
    /\ hdr = NoHeader
    /\ kind_res = NoKind
    /\ msg = NoMessage
    /\ wire = <<>>
    /\ parsed = NoResult
    /\ resent = <<>>

\* let h = HSMSHeader::new(kind, ...)
HeaderNew ==
    /\ pc = "idle"
    /\ \E session_type \in SessionType, session_id \in U16Samples, direction \in U16Samples,
          equip_id \in U16Samples, header_byte2 \in U8Samples, w_bit \in U8Samples,
          stream \in U8Samples, header_byte3 \in U8Samples, system_bytes \in U32Samples :
          /\ call' = Call(session_type, session_id, direction, equip_id, header_byte2,
                          w_bit, stream, header_byte3, system_bytes)
          /\ hdr' = HSMSHeader_new(session_type, session_id, direction, equip_id,
                                   header_byte2, w_bit, stream, header_byte3, system_bytes)
    /\ pc' = "header"
    /\ via' = "new"
    /\ UNCHANGED <<given, kind_res, msg, wire, parsed, resent>>

\* let h = HSMSHeader{ ... }, with any s_type a u8 holds
HeaderLiteral ==
    /\ pc = "idle"
    /\ \E session_id \in U16Samples, header_byte2 \in {0, 129}, header_byte3 \in {0, 3},
          p_type \in {0, 1}, s_type \in 0..255, system_bytes \in U32Samples :
          hdr' = HSMSHeader(session_id, header_byte2, header_byte3, p_type, s_type,
                            system_bytes)
    /\ pc' = "header"
    /\ via' = "literal"
    /\ UNCHANGED <<call, given, kind_res, msg, wire, parsed, resent>>

\* h.get_session_type(): takes &self, the header stays as it is
GetSessionType ==
    /\ pc = "header"
    /\ kind_res' = HSMSHeader_get_session_type(hdr)
    /\ pc' = "resolved"
    /\ UNCHANGED <<via, call, given, hdr, msg, wire, parsed, resent>>

\* serialize::serialize(&h)
SerializeHeader ==
    /\ pc = "resolved"
    /\ wire' = Serialize_HSMSHeader(hdr)
    /\ pc' = "serialized"
    /\ UNCHANGED <<via, call, given, hdr, kind_res, msg, parsed, resent>>

\* let m = HSMSMessage::new(h, &b)
MessageNew ==
    /\ pc = "idle"
    /\ \E hsms_header \in HeaderSamples, message_text \in Bodies :
          /\ given' = Given(hsms_header, message_text)
          /\ msg' = HSMSMessage_new(hsms_header, message_text)
    /\ pc' = "message"
    /\ via' = "new"
    /\ UNCHANGED <<call, hdr, kind_res, wire, parsed, resent>>

\* let m = HSMSMessage{ ... }: any length, the text absent or present
MessageLiteral ==
    /\ pc = "idle"
    /\ \E message_length \in {0, 10, 12, 16909060}, hsms_header \in HeaderSamples,
          message_text \in {None} \cup {Some(b) : b \in Bodies} :
          msg' = HSMSMessage(message_length, hsms_header, message_text)
    /\ pc' = "message"
    /\ via' = "literal"
    /\ UNCHANGED <<call, given, hdr, kind_res, wire, parsed, resent>>

\* let bytes = m.to_bytes()
ToBytes ==
    /\ pc = "message"
    /\ wire' = HSMSMessage_to_bytes(msg)
    /\ pc' = "encoded"
    /\ UNCHANGED <<via, call, given, hdr, kind_res, msg, parsed, resent>>

\* the transport delivers a buffer
Receive ==
    /\ pc = "idle"
    /\ \E buf \in Buffers : wire' = buf
    /\ pc' = "encoded"
    /\ via' = "received"
    /\ UNCHANGED <<call, given, hdr, kind_res, msg, parsed, resent>>

\* HSMSMessage::from_bytes(bytes)
FromBytes ==
    /\ pc = "encoded"
    /\ parsed' = HSMSMessage_from_bytes(wire)
    /\ pc' = "decoded"
    /\ UNCHANGED <<via, call, given, hdr, kind_res, msg, wire, resent>>

\* parsed.unwrap().to_bytes(): the decoded message is encoded again
ToBytesAgain ==
    /\ pc = "decoded"
    /\ parsed.tag = "Ok"
    /\ resent' = HSMSMessage_to_bytes(parsed.message)
    /\ pc' = "reencoded"
    /\ UNCHANGED <<via, call, given, hdr, kind_res, msg, wire, parsed>>

Next ==
    \/ HeaderNew
    \/ HeaderLiteral
    \/ GetSessionType
    \/ SerializeHeader
    \/ MessageNew
    \/ MessageLiteral
    \/ ToBytes
    \/ Receive
    \/ FromBytes
    \/ ToBytesAgain

Spec == Init /\ [][Next]_vars

---------------------------------------------------------------------------
(* Claims *)

\* the bytes of an Option<Vec<u8>>, none when it is absent
TextBytes(message_text) == IF message_text.some THEN message_text.vec ELSE <<>>

\* a message built by HSMSMessage::new has been encoded and decoded again
RoundTripDone == pc = "decoded" /\ via = "new"

\* C1, as claimed: for every header h and every body b of length 0..MaxBody,
\* from_bytes(new(h, b).to_bytes()) is Ok(m') with m' equal to new(h, b) in
\* message_length, hsms_header and message_text.
C1_RoundTripEveryBody == RoundTripDone => parsed = FromOk(msg)

\* C1, amended: the round trip returns Ok(m') with m' equal to m in
\* message_length and hsms_header; m'.message_text equals m.message_text when
\* the body is not empty, and is None (m has Some(empty)) when it is empty.
C1_RoundTripNonEmptyBody ==
    RoundTripDone =>
        /\ parsed.tag = "Ok"
        /\ parsed.message.message_length = msg.message_length
        /\ parsed.message.hsms_header = msg.hsms_header
        /\ IF given.message_text # <<>>
           THEN parsed.message.message_text = msg.message_text
           ELSE parsed.message.message_text = None /\ msg.message_text = Some(<<>>)

\* a two-byte body went through the round trip and came back equal
C1_Witness ==
    /\ RoundTripDone
    /\ Len(given.message_text) >= 2
    /\ msg = HSMSMessage(10 + Len(given.message_text), given.hsms_header,
                         Some(given.message_text))
    /\ parsed = FromOk(msg)

\* C2: whenever from_bytes returns Ok(m), m.message_length is 10 plus the
\* number of body bytes of m.message_text (0 when the body is absent).
C2_ParsedLengthInvariant ==
    (pc = "decoded" /\ parsed.tag = "Ok") =>
        parsed.message.message_length = 10 + Len(TextBytes(parsed.message.message_text))

\* HSMSHeader::new has been called for a kind other than the data message
ControlHeaderBuilt == call.session_type \in SessionType \ {"SECS2"}

\* C3: for every non-data kind and all arguments, HSMSHeader::new yields
\* (session_id, header_byte2, header_byte3) = (0xFFFF, 0, 0) for SelectReq,
\* DeselectReq, LinktestReq, LinktestRsp and SeparateReq, (caller session_id,
\* 0, caller header_byte3) for SelectRsp and DeselectRsp, and the caller's
\* three values for RejectReq; direction, equip_id, w_bit and stream have no
\* effect.
C3_ControlDispatchTable ==
    ControlHeaderBuilt =>
        <<hdr.session_id, hdr.header_byte2, hdr.header_byte3>> =
            IF call.session_type \in {"SelectReq", "DeselectReq", "LinktestReq",
                                      "LinktestRsp", "SeparateReq"}
            THEN <<65535, 0, 0>>
            ELSE IF call.session_type \in {"SelectRsp", "DeselectRsp"}
            THEN <<call.session_id, 0, call.header_byte3>>
            ELSE <<call.session_id, call.header_byte2, call.header_byte3>>

\* a SelectRsp header keeps a session_id with the direction bit set, whatever
\* direction and equip_id were
C3_Witness ==
    /\ call.session_type = "SelectRsp"
    /\ call.session_id = 65535
    /\ call.direction = 1
    /\ call.equip_id = 1
    /\ hdr.session_id = 65535
    /\ hdr.header_byte3 = call.header_byte3

\* C4, as claimed: for every kind other than the data message and all
\* arguments, the header HSMSHeader::new returns has header_byte2 = 0.
C4_ControlByte2Zero == ControlHeaderBuilt => hdr.header_byte2 = 0

\* C4, amended: for every kind other than the data message and RejectReq the
\* header has header_byte2 = 0; for RejectReq it has the caller's header_byte2.
C4_ControlByte2ZeroButReject ==
    ControlHeaderBuilt =>
        hdr.header_byte2 = IF call.session_type = "RejectReq" THEN call.header_byte2 ELSE 0

\* a SelectRsp header built with a non-zero header_byte2 argument has byte 2 zero
C4_Witness ==
    /\ call.session_type = "SelectRsp"
    /\ call.header_byte2 = 255
    /\ hdr.header_byte2 = 0

\* C5: for a data message, session_id is the top bit of direction joined with
\* the low 15 bits of equip_id, and header_byte2 is the top bit of w_bit joined
\* with the low 7 bits of stream, whatever the session_id and header_byte2
\* arguments; equip_id never sets the direction bit nor stream the W-bit.
C5_DataMasking ==
    call.session_type = "SECS2" =>
        /\ hdr.session_id = ((call.direction \div 32768) % 2) * 32768 + (call.equip_id % 32768)
        /\ hdr.header_byte2 = ((call.w_bit \div 128) % 2) * 128 + (call.stream % 128)
        /\ hdr.session_id \div 32768 = (call.direction \div 32768) % 2
        /\ hdr.header_byte2 \div 128 = (call.w_bit \div 128) % 2

\* a data header whose equip_id and stream have their top bit set, and whose
\* direction and w_bit do not
C5_Witness ==
    /\ call.session_type = "SECS2"
    /\ call.direction = 1
    /\ call.equip_id = 65535
    /\ call.w_bit = 1
    /\ call.stream = 255
    /\ hdr.session_id = 32767
    /\ hdr.header_byte2 = 127

\* C6: from_bytes never panics; it returns an error for fewer than 14 bytes,
\* Ok with no body bytes for exactly 14, and Ok with the body buf[14..] for
\* more than 14, whatever length the first 4 bytes declare.
C6_FromBytesBoundary ==
    pc = "decoded" =>
        /\ parsed.tag \in {"Ok", "Err"}
        /\ Len(wire) < 14 => parsed.tag = "Err"
        /\ Len(wire) = 14 =>
              parsed.tag = "Ok" /\ TextBytes(parsed.message.message_text) = <<>>
        /\ Len(wire) > 14 =>
              /\ parsed.tag = "Ok"
              /\ parsed.message.message_text = Some([i \in 1..(Len(wire) - 14) |-> wire[i + 14]])

\* a 13-byte buffer was handed to from_bytes and an error came back
C6_Witness == pc = "decoded" /\ Len(wire) = 13 /\ parsed.tag = "Err"

\* C7: to_bytes is message_length in 4 bytes low byte first, then session_id
\* low byte first, header_byte2, header_byte3, p_type, s_type, system_bytes in
\* 4 bytes low byte first, then the body; 14 + body length bytes in all, the
\* same for an absent body and a present empty one.
C7_WireLayout ==
    (pc \in {"encoded", "decoded"} /\ via \in {"new", "literal"}) =>
        LET h == msg.hsms_header
            body == TextBytes(msg.message_text)
        IN /\ Len(wire) = 14 + Len(body)
           /\ \A i \in 1..Len(wire) : wire[i] \in 0..255
           /\ wire[1] + 256 * wire[2] + 65536 * wire[3] + 16777216 * wire[4]
                 = msg.message_length
           /\ wire[5] + 256 * wire[6] = h.session_id
           /\ wire[7] = h.header_byte2
           /\ wire[8] = h.header_byte3
           /\ wire[9] = h.p_type
           /\ wire[10] = h.s_type
           /\ wire[11] + 256 * wire[12] + 65536 * wire[13] + 16777216 * wire[14]
                 = h.system_bytes
           /\ \A i \in 1..Len(body) : wire[14 + i] = body[i]

\* the select request of the tests, without a body, encoded
C7_Witness ==
    /\ pc = "encoded"
    /\ msg = HSMSMessage(10, HSMSHeader(65535, 0, 0, 0, 1, 286331153), None)
    /\ wire = <<10, 0, 0, 0, 255, 255, 0, 0, 0, 1, 17, 17, 17, 17>>

\* the numeric value of each member of the enumeration
KindNumber ==
    [k \in SessionType |->
        CASE k = "SECS2" -> 0 [] k = "SelectReq" -> 1 [] k = "SelectRsp" -> 2
          [] k = "DeselectReq" -> 3 [] k = "DeselectRsp" -> 4 [] k = "LinktestReq" -> 5
          [] k = "LinktestRsp" -> 6 [] k = "RejectReq" -> 7 [] k = "SeparateReq" -> 9]

\* get_session_type has answered: Ok exactly for s_type 0..7 and 9, with the
\* member of that number; otherwise the error carrying s_type; and the header
\* serialized afterwards has s_type as its sixth byte
KindResolved ==
    pc \in {"resolved", "serialized"} =>
        /\ kind_res.tag \in {"Ok", "Err"}
        /\ kind_res.tag = "Ok" <=> hdr.s_type \in (0..7) \cup {9}
        /\ kind_res.tag = "Ok" => KindNumber[kind_res.kind] = hdr.s_type
        /\ kind_res.tag = "Err" => kind_res.number = hdr.s_type
        /\ pc = "serialized" => Len(wire) = 10 /\ wire[6] = hdr.s_type

\* C8: get_session_type returns Ok(kind) exactly when s_type is one of
\* 0,1,2,3,4,5,6,7,9, kind being the member of that number, and an error
\* carrying the raw value for every other s_type; it leaves the header as it
\* was, and the header still serializes with that s_type byte.
C8_KindResolution ==
    /\ []KindResolved
    /\ [][pc = "header" => hdr' = hdr]_vars

\* the unused s_type 8 was not resolved and was serialized as it is
C8_Witness ==
    /\ pc = "serialized"
    /\ hdr.s_type = 8
    /\ kind_res = KindErr(8)
    /\ wire[6] = 8

\* C9: HSMSHeader::new yields p_type = 0, s_type = the number of the kind and
\* the system_bytes it was given, so get_session_type on it returns Ok(kind).
C9_KindIndependentFields ==
    call.session_type \in SessionType =>
        /\ hdr.p_type = 0
        /\ hdr.s_type = KindNumber[call.session_type]
        /\ hdr.system_bytes = call.system_bytes
        /\ pc \in {"resolved", "serialized"} => kind_res = KindOk(call.session_type)

\* a separate request was built and resolved back to SeparateReq
C9_Witness ==
    /\ pc = "resolved"
    /\ call.session_type = "SeparateReq"
    /\ call.system_bytes = 16909060
    /\ hdr.s_type = 9
    /\ hdr.system_bytes = 16909060
    /\ kind_res = KindOk("SeparateReq")

\* C10: HSMSMessage::new(h, b) has message_length = 10 + b.len(), the header
\* h, and the body present as Some(b), also when b is empty.
C10_BuiltLength ==
    (pc \in {"message", "encoded", "decoded"} /\ via = "new") =>
        /\ msg.message_length = 10 + Len(given.message_text)
        /\ msg.hsms_header = given.hsms_header
        /\ msg.message_text = Some(given.message_text)

\* a message built from an empty body: length 10, the body present and empty
C10_Witness ==
    /\ pc = "message"
    /\ via = "new"
    /\ given.message_text = <<>>
    /\ msg.message_length = 10
    /\ msg.message_text.some
    /\ msg.message_text.vec = <<>>

====
